---- MODULE Spec2Model ----
(***************************************************************************)
(* A model of the svails command line tool: the argument dispatch, the     *)
(* `init` template cloner and the `form` renderer, for the two versions of *)
(* the program found in the repository (src/src/index.ts and the older     *)
(* src/unnamed/part_000).                                                  *)
(*                                                                         *)
(* Text is modelled as a sequence of atoms.  An atom is a piece of text    *)
(* that the program never looks inside: a template literal is cut into     *)
(* atoms so that every string the program searches for ("Input",           *)
(* "Textarea", type="file", ":") is a sequence of whole atoms.  String     *)
(* concatenation is \o, String.includes is a search for a contiguous       *)
(* subsequence.                                                            *)
(***************************************************************************)
EXTENDS Integers, Sequences, FiniteSets, TLC

VARIABLES
    impl,          \* which version of the program runs
    args,          \* process.argv.slice(2): a sequence of texts
    pc,            \* the position of the process
    exitCode,      \* "running", or the exit status 0 / 1
    out,           \* what was printed, in order (console.log / console.error)
    spawned,       \* the external processes spawned so far, in order
    fields,        \* form(): the parsed fields
    renderedFields,\* form(): the field blocks, joined
    i,             \* projectName(): the loop counter
    folder,        \* projectName(): the folder being searched
    manifest,      \* the manifest of the directory readdir saw one in
    project,       \* the value projectName() returned
    pageSvelte,    \* form(): the view document
    pageServer,    \* form(): the server document
    writes,        \* the state of the two Bun.write calls
    files          \* the files of the file system written by this run

vars == <<impl, args, pc, exitCode, out, spawned, fields, renderedFields, i,
          folder, manifest, project, pageSvelte, pageServer, writes, files>>

(***************************************************************************)
(* Bounds of the model.                                                    *)
(***************************************************************************)
MaxOperands == 3
MaxFields == 2

(***************************************************************************)
(* Text helpers.                                                           *)
(***************************************************************************)
Impls == {"index.ts", "part_000"}

\* The value of a destructured array element that is not there.
Undefined == <<"<undefined>">>

\* `${v}`: a template literal prints undefined as the text "undefined".
Interp(v) == IF v = Undefined THEN <<"undefined">> ELSE v

\* The first character of an atom, upper-cased.
UpperFirst(a) ==
    CASE a = "x" -> "X"
      [] a = "y" -> "Y"
      [] a = "s" -> "S"
      [] a = "my" -> "My"
      [] a = "file" -> "File"
      [] a = "textarea" -> "Textarea"
      [] a = "email" -> "Email"
      [] a = "password" -> "Password"
      [] a = "number" -> "Number"
      [] a = "date" -> "Date"
      [] a = "text" -> "Text"
      [] a = "signup" -> "Signup"
      [] a = "app" -> "App"
      [] a = "blog" -> "Blog"
      [] a = "undefined" -> "Undefined"
      [] OTHER -> a

titleCase(input) ==
    IF input = <<>> THEN <<>> ELSE <<UpperFirst(Head(input))>> \o Tail(input)

\* String.prototype.includes
Includes(s, pat) ==
    \E k \in 1..(Len(s) - Len(pat) + 1) : SubSeq(s, k, k + Len(pat) - 1) = pat

Whitespace == {"\n", " ", "  "}

\* String.prototype.trimEnd
RECURSIVE trimEnd(_)
trimEnd(s) ==
    IF s # <<>> /\ s[Len(s)] \in Whitespace
    THEN trimEnd(SubSeq(s, 1, Len(s) - 1))
    ELSE s

\* Array.prototype.join
RECURSIVE join(_, _)
join(parts, sep) ==
    IF parts = <<>> THEN <<>>
    ELSE IF Len(parts) = 1 THEN parts[1]
    ELSE parts[1] \o sep \o join(Tail(parts), sep)

\* String.prototype.split(':'): every ":" separates two parts
RECURSIVE split(_)
split(s) ==
    IF \A k \in 1..Len(s) : s[k] # ":"
    THEN <<s>>
    ELSE LET k == CHOOSE n \in 1..Len(s) :
                      s[n] = ":" /\ \A m \in 1..(n - 1) : s[m] # ":"
         IN  <<SubSeq(s, 1, k - 1)>> \o split(SubSeq(s, k + 1, Len(s)))

\* parseField splitting at the first ":" only: the type tag is all that follows.
parseFieldAtFirstColon(arg) ==
    LET parts == split(arg)
    IN  [field |-> parts[1],
         type  |-> IF Len(parts) >= 2
                   THEN SubSeq(arg, Len(parts[1]) + 2, Len(arg))
                   ELSE Undefined]

\* const [field, type] = arg.split(':')
parseField(arg) ==
    LET parts == split(arg)
    IN  [field |-> parts[1],
         type  |-> IF Len(parts) >= 2 THEN parts[2] ELSE Undefined]

\* parseFields keeping the first field of every name only.
parseFieldsUnique(fieldArgs) ==
    LET all == [k \in 1..Len(fieldArgs) |-> parseField(fieldArgs[k])]
        first(k) == \A j \in 1..(k - 1) : all[j].field # all[k].field
        RECURSIVE keep(_)
        keep(k) == IF k > Len(all) THEN <<>>
                   ELSE (IF first(k) THEN <<all[k]>> ELSE <<>>) \o keep(k + 1)
    IN  keep(1)

parseFields(fieldArgs) ==
    [k \in 1..Len(fieldArgs) |-> parseField(fieldArgs[k])]

(***************************************************************************)
(* The form renderer.                                                      *)
(***************************************************************************)
InputImport == "  import { Input } from \"$ui/input\";"
TextareaImport == "  import { Textarea } from \"$ui/textarea\";"
Multipart == " enctype=\"multipart/form-data\""
FieldOpen == "  <Form.Field form={"
FileMarker == <<"type=", "\"", "file", "\"">>

renderInput(v, f, name) ==
    LET bind == IF v = "index.ts" THEN "Data." ELSE ".form."
        head == <<" {...attrs} bind:value={$">> \o name \o <<bind>> \o f.field
    IN  IF f.type = <<"textarea">>
        THEN <<"<", "Textarea">> \o head \o <<"} rows={4} />">>
        ELSE IF f.type = <<"file", "s">>
        THEN <<"<", "Input">> \o head \o <<"} ">> \o FileMarker \o <<" multiple />">>
        ELSE <<"<", "Input">> \o head \o <<"} ", "type=", "\"">>
                 \o (IF v = "index.ts" THEN Interp(f.type) ELSE f.field)
                 \o <<"\"", " />">>

renderField(v, f, name) ==
    <<FieldOpen>> \o name
        \o <<IF v = "index.ts" THEN "} name=" ELSE "} field=", "\"">> \o f.field
        \o <<"\"", ">\n    <Form.Control let:attrs>\n      <Form.Label>">>
        \o titleCase(f.field)
        \o <<"</Form.Label>\n      ">>
        \o renderInput(v, f, name)
        \o <<"\n    </Form.Control>\n    <Form.FieldErrors />\n  </Form.Field>">>

renderHeader(rendered) ==
    trimEnd((IF Includes(rendered, <<"Input">>)
             THEN <<InputImport, "\n">> ELSE <<>>)
            \o (IF Includes(rendered, <<"Textarea">>)
                THEN <<TextareaImport, "\n">> ELSE <<>>))

\* renderFormType looking for the multi-file picker only.
renderFormTypeMultiple(rendered) ==
    IF Includes(rendered, FileMarker \o <<" multiple />">>) THEN <<Multipart>> ELSE <<>>

renderFormType(rendered) ==
    IF Includes(rendered, FileMarker) THEN <<Multipart>> ELSE <<>>

\* schemaRule without the password branch.
schemaRuleNoPassword(v, type) ==
    IF type = <<"email">> THEN "z.string().email()"
    ELSE IF type = <<"number">> THEN "z.number()"
    ELSE IF type = <<"file">> THEN "z.instanceof(File)"
    ELSE IF type = <<"file", "s">> THEN "z.array(z.instanceof(File))"
    ELSE IF v = "index.ts" /\ type = <<"date">> THEN "z.date()"
    ELSE "z.string()"

schemaRule(v, type) ==
    IF type = <<"email">> THEN "z.string().email()"
    ELSE IF type = <<"password">>
    THEN "z.string().min(8, { message: \"Password must be minimum 8 characters\" })"
    ELSE IF type = <<"number">> THEN "z.number()"
    ELSE IF type = <<"file">> THEN "z.instanceof(File)"
    ELSE IF type = <<"file", "s">> THEN "z.array(z.instanceof(File))"
    ELSE IF v = "index.ts" /\ type = <<"date">> THEN "z.date()"
    ELSE "z.string()"

renderSchemaField(v, f) ==
    <<"  ">> \o f.field \o <<": ", schemaRule(v, f.type), ",">>

renderAllFields(v, fs, name) ==
    join([k \in 1..Len(fs) |-> renderField(v, fs[k], name)], <<"\n", "\n">>)

\* What projectName() returns when no directory holds a manifest.
Null == <<"<null>">>

\* if (v): null, undefined and the empty string are falsy
Truthy(v) == v \notin {Null, Undefined, <<>>}

renderTitle(name, proj) ==
    IF Truthy(proj)
    THEN titleCase(name) \o <<" - ">> \o titleCase(proj)
    ELSE titleCase(name)

\* The view document, as form() assembles it.
pageSvelteOf(v, name, fs, rendered, title) ==
    <<"<script lang=\"ts\">\n  import * as Form from \"$ui/form\";\n">>
    \o renderHeader(rendered)
    \o <<"\n  import { superForm } from \"sveltekit-superforms\";\n  import Loader from \"lucide-svelte/icons/loader\";\n\n  // Props\n  const { data } = $props();\n  const ">>
    \o name \o <<" = superForm(data.">> \o name
    \o (IF v = "index.ts"
        THEN <<");\n  const { form: ">> \o name \o <<"Data, delayed: ">>
             \o name \o <<"Delayed, submitting: ">> \o name
             \o <<"Submitting, enhance: ">> \o name \o <<"Enhance } = ">>
             \o name \o <<";\n</script>\n\n<svelte:head>\n  <title>">>
             \o title
             \o <<"</title>\n</svelte:head>\n\n<h1 class=\"text-2xl font-bold mb-4\">">>
             \o titleCase(name)
             \o <<"</h1>\n\n<form class=\"grid gap-2\" method=\"post\" action=\"?/">>
             \o name \o <<"\"">> \o renderFormType(rendered)
             \o <<" use:">> \o name \o <<"Enhance>\n">>
             \o rendered
             \o <<"\n\n  <Form.Button disabled={$">> \o name
             \o <<"Submitting}>\n    {#if $">> \o name
             \o <<"Delayed}\n      <Loader class=\"animate-spin\" />\n    {:else}\n      Submit\n    {/if}\n  </Form.Button>\n</form>">>
        ELSE <<");\n</script>\n\n<h1 class=\"text-xl font-bold mb-4\">">>
             \o titleCase(name)
             \o <<"</h1>\n\n<form class=\"grid gap-2\" method=\"post\"">>
             \o renderFormType(rendered)
             \o <<" use:enhance={">> \o name \o <<".enhance}>\n">>
             \o rendered
             \o <<"\n\n  <Form.Button disabled={$">> \o name
             \o <<".submitting}>\n    {#if $">> \o name
             \o <<".delayed}\n      <Loader class=\"animate-spin\" />\n    {:else}\n      Submit\n    {/if}\n  </Form.Button>\n</form>">>)

SchemaOpen == " = z.object({\n"
SchemaClose == "\n});\n\nexport const load: PageServerLoad = async () => {\n  // Initialize form\n  return {\n    "

fieldNames(fs) == join([k \in 1..Len(fs) |-> fs[k].field], <<", ">>)

\* The server document, as form() assembles it.
pageServerOf(v, name, fs) ==
    LET schemaName == name \o <<"Schema">>
        renderedSchemaFields ==
            trimEnd(join([k \in 1..Len(fs) |-> renderSchemaField(v, fs[k])],
                         <<"\n">>))
    IN  <<"import { z } from \"zod\";\nimport { zod } from \"sveltekit-superforms/adapters\";\nimport { fail, superValidate } from \"sveltekit-superforms\";\n",
          IF v = "index.ts"
          THEN "import type { Actions, PageServerLoad } from \"./$types\";\n\nconst "
          ELSE "import { type Actions, type PageServerLoad } from \"./$types\";\n\nconst ">>
        \o schemaName \o <<SchemaOpen>> \o renderedSchemaFields \o <<SchemaClose>>
        \o name \o <<": await superValidate(zod(">> \o schemaName
        \o <<")),\n  };\n};\n\nexport const actions: Actions = {\n  ">>
        \o (IF v = "index.ts" THEN name ELSE <<"default">>)
        \o <<": async ({ request }) => {\n    // Validate form\n    const ">>
        \o name \o <<" = await superValidate(request, zod(">> \o schemaName
        \o <<"));\n    if (!">> \o name \o <<".valid) return fail(400, { ">>
        \o (IF v = "index.ts" THEN <<>> ELSE <<"form: ">>) \o name
        \o <<" });\n    const { ">> \o fieldNames(fs) \o <<" } = ">> \o name
        \o (IF v = "index.ts"
            THEN <<".data;\n    console.log(">> \o fieldNames(fs)
                 \o <<");\n  },\n};">>
            ELSE <<".data;\n\n    // Business logic\n  },\n};">>)

(***************************************************************************)
(* The process.                                                            *)
(***************************************************************************)
Stdout(text) == [stream |-> "stdout", text |-> text]
Stderr(text) == [stream |-> "stderr", text |-> text]

UsageAll ==
    <<Stdout(<<"Usage:">>), Stdout(<<"  svails init <field>">>),
      Stdout(<<"  svails form <name> <field>:<type>">>)>>
UsageInit ==
    <<Stdout(<<"Usage:">>), Stdout(<<"  svails init <template> <name>">>)>>
UsageForm ==
    <<Stdout(<<"Usage:">>), Stdout(<<"  svails form <name> <field>:<type>">>)>>
UnknownCommand(a) == <<Stdout(<<"Unknown command:", " ">> \o a[1])>>
CloneFailed == Stderr(<<"Failed to clone the repository.">>)
\* What the runtime prints when the top-level await rejects.
Uncaught == Stderr(<<"<uncaught error>">>)

CloneCmd(a) ==
    << <<"git">>, <<"clone">>, <<"https://github.com/svails/">> \o a[2], a[3] >>
MoveCmd(a) ==
    << <<"mv">>, a[3] \o <<"/.git">>, <<"/tmp/", "<uuid>">> >>
SedUpperCmd(a) ==
    << <<"find">>, a[3], <<"-type">>, <<"f">>, <<"-exec">>, <<"sed">>, <<"-i">>,
       <<"s/Svails/">> \o titleCase(a[3]) \o <<"/g">>, <<"{}">>, <<"+">> >>
SedLowerCmd(a) ==
    << <<"find">>, a[3], <<"-type">>, <<"f">>, <<"!">>, <<"-name">>,
       <<"README.md">>, <<"-exec">>, <<"sed">>, <<"-i">>,
       <<"s/svails\\|svails-fullstack\\|svails-api/">> \o a[3] \o <<"/g">>,
       <<"{}">>, <<"+">> >>

\* Bun.spawnSync returns with the result of the program it ran (git, mv and
\* find are installed); `success` is the program's exit status being 0.
Spawn(cmd, success) == [cmd |-> cmd, success |-> success]

NoManifest == [kind |-> "none", name |-> <<>>]
\* What a package.json may hold: text that is no JSON, or an object whose
\* "name" is absent, empty or a name.
ManifestBodies ==
    {[kind |-> "malformed", name |-> <<>>]}
    \cup {[kind |-> "json", name |-> n] : n \in {Undefined, <<>>, <<"app">>}}
\* The file does not exist.
Enoent == [kind |-> "enoent", name |-> <<>>]

NoWrites == [svelte |-> "none", server |-> "none"]
WritePath(name, f) ==
    name \o <<IF f = "svelte" THEN "/+page.svelte" ELSE "/+page.server.ts">>

\* for (let i = 0; i < 10; i++)
MaxLevels == 10

SeqUpTo(S, n) == UNION {[1..k -> S] : k \in 0..n}

Commands == {<<"init">>, <<"form">>, <<"help">>}
Operands == {<<"blog">>, <<"x", ":", "email">>, <<"y">>}
Argv ==
    {<<>>} \cup {<<c>> \o ops : c \in Commands, ops \in SeqUpTo(Operands, MaxOperands)}

Idle ==
    /\ pc = "start"
    /\ exitCode = "running"
    /\ out = <<>>
    /\ spawned = <<>>
    /\ fields = <<>>
    /\ renderedFields = <<>>
    /\ i = 0
    /\ folder = <<>>
    /\ manifest = NoManifest
    /\ project = Null
    /\ pageSvelte = <<>>
    /\ pageServer = <<>>
    /\ writes = NoWrites
    /\ files = {}

Init ==
    /\ impl \in Impls
    /\ args \in Argv
    /\ Idle

Exit(code, printed) ==
    /\ exitCode' = code
    /\ out' = out \o printed
    /\ pc' = "done"

\* Main with `init` asking for one operand only (args.length < 2).
MainInitOneOperand ==
    /\ pc = "start"
    /\ IF Len(args) = 0
       THEN Exit(1, UsageAll)
       ELSE IF args[1] = <<"init">>
       THEN IF Len(args) < 2
            THEN Exit(1, UsageInit)
            ELSE pc' = "clone" /\ UNCHANGED <<exitCode, out>>
       ELSE IF args[1] = <<"form">>
       THEN IF Len(args) < 3
            THEN Exit(1, UsageForm)
            ELSE pc' = "form" /\ UNCHANGED <<exitCode, out>>
       ELSE Exit(1, UnknownCommand(args))
    /\ UNCHANGED <<impl, args, spawned, fields, renderedFields, i, folder,
                   manifest, project, pageSvelte, pageServer, writes, files>>

\* Lines 6-21 and 44-55 of index.ts: the dispatch on the argument list.
Main ==
    /\ pc = "start"
    /\ IF Len(args) = 0
       THEN Exit(1, UsageAll)
       ELSE IF args[1] = <<"init">>
       THEN IF Len(args) < 3
            THEN Exit(1, UsageInit)
            ELSE pc' = "clone" /\ UNCHANGED <<exitCode, out>>
       ELSE IF args[1] = <<"form">>
       THEN IF Len(args) < 3
            THEN Exit(1, UsageForm)
            ELSE pc' = "form" /\ UNCHANGED <<exitCode, out>>
       ELSE Exit(1, UnknownCommand(args))
    /\ UNCHANGED <<impl, args, spawned, fields, renderedFields, i, folder,
                   manifest, project, pageSvelte, pageServer, writes, files>>

formUnchanged ==
    UNCHANGED <<impl, args, fields, renderedFields, i, folder, manifest,
                project, pageSvelte, pageServer, writes, files>>

\* Clone without the process.exit(1) of the failure branch.
CloneNoExit ==
    /\ pc = "clone"
    /\ \E success \in BOOLEAN :
        /\ spawned' = Append(spawned, Spawn(CloneCmd(args), success))
        /\ out' = IF success THEN out ELSE Append(out, CloneFailed)
        /\ IF impl = "index.ts"
           THEN pc' = "mv" /\ UNCHANGED exitCode
           ELSE pc' = "done" /\ exitCode' = 0
    /\ formUnchanged

\* git clone, and the check of its result
Clone ==
    /\ pc = "clone"
    /\ \E success \in BOOLEAN :
        /\ spawned' = Append(spawned, Spawn(CloneCmd(args), success))
        /\ IF ~success
           THEN Exit(1, <<CloneFailed>>)
           ELSE IF impl = "index.ts"
           THEN pc' = "mv" /\ UNCHANGED <<exitCode, out>>
           ELSE Exit(0, <<>>)
    /\ formUnchanged

\* MoveGit with its result checked as the clone's is.
MoveGitChecked ==
    /\ pc = "mv"
    /\ \E success \in BOOLEAN :
        /\ spawned' = Append(spawned, Spawn(MoveCmd(args), success))
        /\ IF success
           THEN pc' = "sedUpper" /\ UNCHANGED <<exitCode, out>>
           ELSE Exit(1, <<>>)
    /\ formUnchanged

\* mv <destination>/.git /tmp/<uuid>: the result is not looked at
MoveGit ==
    /\ pc = "mv"
    /\ \E success \in BOOLEAN :
        spawned' = Append(spawned, Spawn(MoveCmd(args), success))
    /\ pc' = "sedUpper"
    /\ UNCHANGED <<exitCode, out>>
    /\ formUnchanged

\* find ... sed s/Svails/<Name>/g: the result is not looked at
SedUpper ==
    /\ pc = "sedUpper"
    /\ \E success \in BOOLEAN :
        spawned' = Append(spawned, Spawn(SedUpperCmd(args), success))
    /\ pc' = "sedLower"
    /\ UNCHANGED <<exitCode, out>>
    /\ formUnchanged

\* find ... ! -name README.md ... sed s/svails.../<name>/g, then the end
SedLower ==
    /\ pc = "sedLower"
    /\ \E success \in BOOLEAN :
        spawned' = Append(spawned, Spawn(SedLowerCmd(args), success))
    /\ Exit(0, <<>>)
    /\ formUnchanged

(***************************************************************************)
(* form(name, args)                                                        *)
(***************************************************************************)
formName == args[2]
fieldArgs == SubSeq(args, 3, Len(args))
BothPending == [svelte |-> "pending", server |-> "pending"]

\* The directory a path of projectName() names, as levels above the current
\* directory, and the file name in it.  "." followed by "package.json" is the
\* file .package.json of the current directory.
RECURSIVE pathLevel(_)
pathLevel(path) ==
    IF path # <<>> /\ Head(path) = "../" THEN 1 + pathLevel(Tail(path)) ELSE 0
pathFile(path) == SubSeq(path, pathLevel(path) + 1, Len(path))
folderLevel(f) == IF f = <<".">> THEN 0 ELSE pathLevel(f)

\* `${folder}package.json`
manifestPath(f) == f \o <<"package.json">>

\* folder = folder == "." ? "../" : folder + "../"
nextFolder(f) == IF f = <<".">> THEN <<"../">> ELSE f \o <<"../">>

\* form() up to its first await: the parse of the fields and the field blocks.
\* index.ts then waits for renderTitle(); part_000 has no title and goes on to
\* assemble both documents and to issue both writes.
FormStart ==
    /\ pc = "form"
    /\ fields' = parseFields(fieldArgs)
    /\ renderedFields' = renderAllFields(impl, fields', formName)
    /\ IF impl = "index.ts"
       THEN /\ folder' = <<".">>
            /\ i' = 0
            /\ pc' = "readdir"
            /\ UNCHANGED <<pageSvelte, pageServer, writes>>
       ELSE /\ pageSvelte' = pageSvelteOf(impl, formName, fields', renderedFields', <<>>)
            /\ pageServer' = pageServerOf(impl, formName, fields')
            /\ writes' = BothPending
            /\ pc' = "join"
            /\ UNCHANGED <<folder, i>>
    /\ UNCHANGED <<impl, args, exitCode, out, spawned, manifest, project, files>>

\* One turn of the loop of projectName(): readdir(folder) fails, or lists no
\* package.json, or lists one.
ReadDir ==
    /\ pc = "readdir"
    /\ i < MaxLevels
    /\ \E listing \in {"error", "absent", "present"} :
        CASE listing = "error" ->
                /\ Exit(1, <<Uncaught>>)
                /\ UNCHANGED <<i, folder, manifest, project>>
          [] listing = "absent" ->
                /\ i' = i + 1
                /\ folder' = nextFolder(folder)
                /\ IF i + 1 < MaxLevels
                   THEN pc' = "readdir" /\ UNCHANGED project
                   ELSE pc' = "assemble" /\ project' = Null
                /\ UNCHANGED <<exitCode, out, manifest>>
          [] listing = "present" ->
                /\ \E m \in ManifestBodies : manifest' = m
                /\ pc' = "readManifest"
                /\ UNCHANGED <<exitCode, out, i, folder, project>>
    /\ UNCHANGED <<impl, args, spawned, fields, renderedFields, pageSvelte,
                   pageServer, writes, files>>

\* Bun.file(`${folder}package.json`).text(), JSON.parse and json["name"].  The
\* path names the manifest readdir saw only when it names package.json in the
\* folder searched; any other file may be missing or hold anything.
ReadManifest ==
    /\ pc = "readManifest"
    /\ LET path == manifestPath(folder)
           hit == /\ pathLevel(path) = folderLevel(folder)
                  /\ pathFile(path) = <<"package.json">>
       IN  \E body \in (IF hit THEN {manifest} ELSE ManifestBodies \cup {Enoent}) :
              IF body.kind = "json"
              THEN /\ project' = body.name
                   /\ pc' = "assemble"
                   /\ UNCHANGED <<exitCode, out>>
              ELSE /\ Exit(1, <<Uncaught>>)
                   /\ UNCHANGED project
    /\ UNCHANGED <<impl, args, spawned, fields, renderedFields, i, folder,
                   manifest, pageSvelte, pageServer, writes, files>>

\* index.ts after renderTitle(): both documents, and both writes issued.
FormAssemble ==
    /\ pc = "assemble"
    /\ pageSvelte' = pageSvelteOf(impl, formName, fields, renderedFields,
                                  renderTitle(formName, project))
    /\ pageServer' = pageServerOf(impl, formName, fields)
    /\ writes' = BothPending
    /\ pc' = "join"
    /\ UNCHANGED <<impl, args, exitCode, out, spawned, fields, renderedFields,
                   i, folder, manifest, project, files>>

\* One of the two Bun.write calls finishes, with the file written or not.
WriteDone ==
    /\ pc = "join"
    /\ \E f \in {"svelte", "server"}, ok \in BOOLEAN :
        /\ writes[f] = "pending"
        /\ writes' = [writes EXCEPT ![f] = IF ok THEN "ok" ELSE "failed"]
        /\ files' = IF ok
                    THEN files \cup {[path |-> WritePath(formName, f),
                                      content |-> IF f = "svelte" THEN pageSvelte
                                                  ELSE pageServer]}
                    ELSE files
    /\ UNCHANGED <<impl, args, pc, exitCode, out, spawned, fields,
                   renderedFields, i, folder, manifest, project, pageSvelte,
                   pageServer>>

Created(f) == Stdout(<<"Created ">> \o WritePath(formName, f))

\* JoinResolved as a Promise.any would resolve: once one write has finished.
JoinResolvedAny ==
    /\ pc = "join"
    /\ \E f \in {"svelte", "server"} : writes[f] = "ok"
    /\ Exit(0, <<Created("svelte"), Created("server")>>)
    /\ UNCHANGED <<impl, args, spawned, fields, renderedFields, i, folder,
                   manifest, project, pageSvelte, pageServer, writes, files>>

\* await Promise.all([...]) resolves once both writes have: the two messages.
JoinResolved ==
    /\ pc = "join"
    /\ \A f \in {"svelte", "server"} : writes[f] = "ok"
    /\ Exit(0, <<Created("svelte"), Created("server")>>)
    /\ UNCHANGED <<impl, args, spawned, fields, renderedFields, i, folder,
                   manifest, project, pageSvelte, pageServer, writes, files>>

\* await Promise.all([...]) rejects as soon as one write has: nothing catches it.
JoinRejected ==
    /\ pc = "join"
    /\ \E f \in {"svelte", "server"} : writes[f] = "failed"
    /\ Exit(1, <<Uncaught>>)
    /\ UNCHANGED <<impl, args, spawned, fields, renderedFields, i, folder,
                   manifest, project, pageSvelte, pageServer, writes, files>>

Next ==
    \/ Main
    \/ Clone
    \/ MoveGit
    \/ SedUpper
    \/ SedLower
    \/ FormStart
    \/ ReadDir
    \/ ReadManifest
    \/ FormAssemble
    \/ WriteDone
    \/ JoinResolved
    \/ JoinRejected

Spec == Init /\ [][Next]_vars

(***************************************************************************)
(* Properties of the process.                                              *)
(***************************************************************************)
Range(f) == {f[k] : k \in DOMAIN f}
IsClone(e) == e.cmd[1] = <<"git">> /\ e.cmd[2] = <<"clone">>
IsMove(e) == e.cmd[1] = <<"mv">>
IsSed(e) == e.cmd[1] = <<"find">> /\ <<"sed">> \in Range(e.cmd)
ExcludesReadme(e) ==
    \E k \in 1..(Len(e.cmd) - 2) :
        e.cmd[k] = <<"!">> /\ e.cmd[k + 1] = <<"-name">> /\ e.cmd[k + 2] = <<"README.md">>
SedScript(e) == e.cmd[CHOOSE k \in 2..Len(e.cmd) : e.cmd[k - 1] = <<"-i">>]
CloneHasFailed == \E e \in Range(spawned) : IsClone(e) /\ ~e.success
CloneHasSucceeded == \E e \in Range(spawned) : IsClone(e) /\ e.success

\* C1: once the git clone of `init` has reported failure, the clone-failure
\* message is printed, the process has ended with exit status 1, the failed
\* clone is the only process ever spawned (no retry, no move of .git, no
\* placeholder rewrite) and it stays so.
C1_CloneFailureIsFatal ==
    CloneHasFailed =>
        /\ pc = "done"
        /\ exitCode = 1
        /\ out = <<CloneFailed>>
        /\ Len(spawned) = 1
        /\ IsClone(spawned[1])
        /\ spawned[1].cmd[3] = <<"https://github.com/svails/">> \o args[2]
        /\ spawned[1].cmd[4] = args[3]

C1_Witness ==
    /\ impl = "index.ts"
    /\ CloneHasFailed
    /\ args[1] = <<"init">>
    /\ pc = "done"
    /\ exitCode = 1

UsageError ==
    \/ Len(args) = 0
    \/ args[1] \notin {<<"init">>, <<"form">>}
    \/ Len(args) < 3

FormIdle ==
    /\ fields = <<>>
    /\ renderedFields = <<>>
    /\ pageSvelte = <<>>
    /\ pageServer = <<>>
    /\ writes = NoWrites
    /\ files = {}
    /\ manifest = NoManifest

\* C2: the first argument alone selects the component, and never both: a
\* process is spawned only under `init`, the renderer works only under `form`;
\* a usage error (no argument, an unknown first argument, `init` or `form`
\* with fewer than two operands) ends at once with exit status 1 after a usage
\* or unknown-command message, with no process spawned and no file written.
C2_DispatchAndUsageErrors ==
    /\ spawned # <<>> => (args # <<>> /\ args[1] = <<"init">> /\ FormIdle)
    /\ ~FormIdle => (args # <<>> /\ args[1] = <<"form">> /\ spawned = <<>>)
    /\ (UsageError /\ pc # "start") =>
          /\ pc = "done"
          /\ exitCode = 1
          /\ out # <<>>
          /\ \A k \in DOMAIN out : out[k].stream = "stdout"
          /\ Head(out).text[1] = (IF args # <<>> /\ args[1] \notin {<<"init">>, <<"form">>}
                                  THEN "Unknown command:" ELSE "Usage:")
          /\ spawned = <<>>
          /\ FormIdle

C2_Witness ==
    /\ Len(args) = 2
    /\ args[1] = <<"init">>
    /\ pc = "done"
    /\ exitCode = 1

WrittenPaths == {f.path : f \in files}
CreatedPrinted ==
    \E e \in Range(out) : e.stream = "stdout" /\ Head(e.text) = "Created "

InitSteps(e) ==
    CASE IsClone(e) -> "clone"
      [] IsMove(e) /\ e.cmd[2] = args[3] \o <<"/.git">> /\ Head(e.cmd[3]) = "/tmp/" -> "move .git"
      [] IsSed(e) /\ ~ExcludesReadme(e) /\ Head(SedScript(e)) = "s/Svails/" -> "rewrite Svails"
      [] IsSed(e) /\ ExcludesReadme(e) /\ Head(SedScript(e)) = "s/svails\\|svails-fullstack\\|svails-api/" -> "rewrite svails"
      [] OTHER -> "other"
StepsRun == [k \in DOMAIN spawned |-> InitSteps(spawned[k])]
AllSteps == <<"clone", "move .git", "rewrite Svails", "rewrite svails">>

TitleOf(doc) ==
    LET open == CHOOSE k \in DOMAIN doc :
                    doc[k] = ";\n</script>\n\n<svelte:head>\n  <title>"
        close == CHOOSE k \in DOMAIN doc :
                    doc[k] = "</title>\n</svelte:head>\n\n<h1 class=\"text-2xl font-bold mb-4\">"
    IN  SubSeq(doc, open + 1, close - 1)

\* C8: the lookup reads at most 10 directories; when the first directory found
\* to hold a manifest holds a well-formed one, the current directory included,
\* the run does not fail there and the title is the capitalized form name
\* followed by the capitalized declared name (or the form name alone when no
\* name is declared); when none of the 10 directories holds a manifest the
\* title is the capitalized form name.
C8_TitleLookup ==
    /\ i <= MaxLevels
    /\ (manifest.kind = "json" /\ pc # "readManifest") =>
          /\ project = manifest.name
          /\ ~(pc = "done" /\ writes = NoWrites)
          /\ pageSvelte # <<>> =>
                TitleOf(pageSvelte) =
                    IF Truthy(manifest.name)
                    THEN titleCase(formName) \o <<" - ">> \o titleCase(manifest.name)
                    ELSE titleCase(formName)
    /\ (impl = "index.ts" /\ manifest = NoManifest /\ pageSvelte # <<>>) =>
          (i = MaxLevels /\ TitleOf(pageSvelte) = titleCase(formName))

(***************************************************************************)
(* The renderer as a function of its inputs: the form name, the field      *)
(* arguments and the value projectName() returned.                         *)
(***************************************************************************)
FormNames == {<<"signup">>, <<"my", "Input">>}
\* Field names that the rendered text is searched for by mistake.
WidgetNames == {<<"file">>, <<"textarea">>}
TypeTags ==
    {<<"email">>, <<"password">>, <<"number">>, <<"file">>, <<"file", "s">>,
     <<"date">>, <<"textarea">>, <<"text">>, <<>>}
\* What follows the field name in an argument: nothing, ":" and a type tag, a
\* second ":" and more, a type tag with a double quote in it.
TypeSuffixes ==
    {<<>>} \cup {<<":">> \o t : t \in TypeTags}
    \cup {<<":", "email", ":", "y">>, <<":", "file", "\"", "x">>}
FieldArgs ==
    {<<"x">> \o t : t \in TypeSuffixes}
    \cup {n \o t : n \in WidgetNames, t \in {<<":", "text">>, <<":", "textarea">>}}

InitRender ==
    /\ impl \in Impls
    /\ \E name \in FormNames, fa \in SeqUpTo(FieldArgs, MaxFields) :
          /\ fa # <<>>
          /\ args = <<<<"form">>, name>> \o fa
    /\ pc = "render"
    /\ exitCode = "running"
    /\ out = <<>>
    /\ spawned = <<>>
    /\ fields = <<>>
    /\ renderedFields = <<>>
    /\ i = 0
    /\ folder = <<>>
    /\ manifest = NoManifest
    /\ project \in {Null, <<"app">>}
    /\ pageSvelte = <<>>
    /\ pageServer = <<>>
    /\ writes = NoWrites
    /\ files = {}

\* form() from the parse of the fields to the two documents, given project.
Render ==
    /\ pc = "render"
    /\ fields' = parseFields(fieldArgs)
    /\ renderedFields' = renderAllFields(impl, fields', formName)
    /\ pageSvelte' = pageSvelteOf(impl, formName, fields', renderedFields',
                                  IF impl = "index.ts"
                                  THEN renderTitle(formName, project) ELSE <<>>)
    /\ pageServer' = pageServerOf(impl, formName, fields')
    /\ pc' = "rendered"
    /\ UNCHANGED <<impl, args, exitCode, out, spawned, i, folder, manifest,
                   project, writes, files>>

NextRender == Render

SpecRender == InitRender /\ [][NextRender]_vars

(***************************************************************************)
(* Reading the documents back.                                             *)
(***************************************************************************)
RECURSIVE Sorted(_)
Sorted(S) ==
    IF S = {} THEN <<>>
    ELSE LET m == CHOOSE a \in S : \A b \in S : a <= b
         IN  <<m>> \o Sorted(S \ {m})

\* Where the field blocks of the view document start.
BlockStarts(doc) == Sorted({k \in DOMAIN doc : doc[k] = FieldOpen})

\* The k-th field block of the view document.
Block(doc, k) ==
    LET starts == BlockStarts(doc)
        end == IF k < Len(starts) THEN starts[k + 1] - 1 ELSE Len(doc)
    IN  SubSeq(doc, starts[k], end)

\* Where the rules of the schema declaration stand in the server document.
RuleAt(doc) ==
    LET open == CHOOSE k \in DOMAIN doc : doc[k] = SchemaOpen
        close == CHOOSE k \in DOMAIN doc : doc[k] = SchemaClose
    IN  Sorted({k \in (open + 1)..(close - 1) :
                   doc[k - 1] = ": " /\ doc[k + 1] = ","
                   /\ (k + 2 = close \/ doc[k + 2] = "\n")})

\* The <form ...> tag of the view document.
FormTag(doc) ==
    LET open == CHOOSE k \in DOMAIN doc :
                    doc[k] \in {"</h1>\n\n<form class=\"grid gap-2\" method=\"post\" action=\"?/",
                                "</h1>\n\n<form class=\"grid gap-2\" method=\"post\""}
        close == CHOOSE k \in DOMAIN doc : doc[k] \in {" use:", " use:enhance={"}
    IN  SubSeq(doc, open, close)

\* The text of an argument before its first ":", between its first and its
\* second ":", and after its first ":".
Colons(arg) == Sorted({k \in DOMAIN arg : arg[k] = ":"})
BeforeFirstColon(arg) ==
    IF Colons(arg) = <<>> THEN arg ELSE SubSeq(arg, 1, Colons(arg)[1] - 1)
AfterFirstColon(arg) == SubSeq(arg, Colons(arg)[1] + 1, Len(arg))
BetweenColons(arg) ==
    IF Len(Colons(arg)) = 1 THEN AfterFirstColon(arg)
    ELSE SubSeq(arg, Colons(arg)[1] + 1, Colons(arg)[2] - 1)

Rendered == pc = "rendered"
NFields == Len(fieldArgs)

(***************************************************************************)
(* Properties of the renderer.                                             *)
(***************************************************************************)
\* The rule the schema declaration gives the k-th field.
Rule(k) == pageServer[RuleAt(pageServer)[k]]

ClaimedRule(type) ==
    CASE type = <<"email">> -> "z.string().email()"
      [] type = <<"password">> ->
            "z.string().min(8, { message: \"Password must be minimum 8 characters\" })"
      [] type = <<"number">> -> "z.number()"
      [] type = <<"file">> -> "z.instanceof(File)"
      [] type = <<"file", "s">> -> "z.array(z.instanceof(File))"
      [] type = <<"date">> -> "z.date()"
      [] OTHER -> "z.string()"

\* C3 as stated: in both versions the rule of every field is the one its type
\* tag names, the date rule for `date` included.
C3_AsStated ==
    Rendered => \A k \in 1..NFields : Rule(k) = ClaimedRule(fields[k].type)

\* C3, amended: the rule of a field is fixed by its type tag alone; it is the
\* rule claimed, except that src/unnamed/part_000 has no date rule and gives
\* `date` the plain string rule.
C3_RuleByTypeTag ==
    Rendered =>
        /\ Len(RuleAt(pageServer)) = NFields
        /\ \A k \in 1..NFields :
              Rule(k) = IF impl = "part_000" /\ fields[k].type = <<"date">>
                        THEN "z.string()"
                        ELSE ClaimedRule(fields[k].type)

C3_Witness ==
    /\ Rendered
    /\ impl = "part_000"
    /\ NFields = 2
    /\ fields[1].type = <<"date">>
    /\ fields[2].type = <<"password">>
    /\ Rule(1) = "z.string()"

\* The field name the k-th block of the view document is rendered for.
BlockField(k) ==
    LET b == Block(pageSvelte, k)
        from == Len(formName) + 4
        to == CHOOSE n \in from..Len(b) :
                  /\ b[n] = "\""
                  /\ b[n + 1] = ">\n    <Form.Control let:attrs>\n      <Form.Label>"
    IN  SubSeq(b, from, to - 1)

\* The field name the k-th rule of the schema declaration is written for.
RuleField(k) ==
    LET at == RuleAt(pageServer)
        from == IF k = 1
                THEN 2 + CHOOSE n \in DOMAIN pageServer : pageServer[n] = SchemaOpen
                ELSE at[k - 1] + 4
    IN  SubSeq(pageServer, from, at[k] - 2)

\* C4: the view document holds one field block and the schema declaration one
\* rule per field argument, duplicates included, and the k-th block and the
\* k-th rule are those of the k-th argument's field name.
C4_OneBlockAndOneRulePerField ==
    Rendered =>
        /\ Len(BlockStarts(pageSvelte)) = NFields
        /\ Len(RuleAt(pageServer)) = NFields
        /\ \A k \in 1..NFields :
              /\ BlockField(k) = BeforeFirstColon(fieldArgs[k])
              /\ RuleField(k) = BeforeFirstColon(fieldArgs[k])

C4_Witness ==
    /\ Rendered
    /\ NFields = 2
    /\ BeforeFirstColon(fieldArgs[1]) = BeforeFirstColon(fieldArgs[2])
    /\ fieldArgs[1] # fieldArgs[2]
    /\ Len(BlockStarts(pageSvelte)) = 2

\* C5: the view document imports Textarea exactly when some field's type tag
\* is `textarea`, and Input exactly when some field's type tag is not.
C5_ImportsMatchWidgets ==
    Rendered =>
        /\ (TextareaImport \in Range(pageSvelte))
              <=> (\E k \in 1..NFields : fields[k].type = <<"textarea">>)
        /\ (InputImport \in Range(pageSvelte))
              <=> (\E k \in 1..NFields : fields[k].type # <<"textarea">>)

HasMultipart == Multipart \in Range(FormTag(pageSvelte))
QuoteFree == \A k \in DOMAIN args : "\"" \notin Range(args[k])

\* C6 as stated: the form carries the multipart attribute exactly when some
\* field's type tag is `files`.
C6_AsStated ==
    Rendered => (HasMultipart <=> \E k \in 1..NFields : fields[k].type = <<"file", "s">>)

\* The fields whose widget is rendered with type="file".
FileWidget(f) ==
    IF impl = "index.ts"
    THEN f.type \in {<<"file">>, <<"file", "s">>}
    ELSE \/ f.type = <<"file", "s">>
         \/ f.type # <<"textarea">> /\ f.field = <<"file">>

\* C6, amended: in src/index.ts the form carries the multipart attribute when
\* some field's type tag is `files` or `file`, and, for arguments without a
\* double quote, only then.  In src/unnamed/part_000, whose single-line widget
\* prints the field name as its type, the same holds with: some field's type
\* tag is `files`, or some field named `file` has a type tag other than
\* `textarea`.
C6_MultipartByFileWidget ==
    Rendered =>
        /\ (\E k \in 1..NFields : FileWidget(fields[k])) => HasMultipart
        /\ (QuoteFree /\ HasMultipart) => \E k \in 1..NFields : FileWidget(fields[k])
        /\ Multipart \in Range(pageSvelte) => HasMultipart

C6_Witness ==
    /\ Rendered
    /\ impl = "index.ts"
    /\ QuoteFree
    /\ \A k \in 1..NFields : fields[k].type # <<"file", "s">>
    /\ \E k \in 1..NFields : fields[k].type = <<"file">>
    /\ HasMultipart

\* A field rendered as one of an unrecognized type is: the single-line widget
\* and the plain string rule.
FallbackRendering(k) ==
    /\ Includes(Block(pageSvelte, k), <<"<", "Input", " {...attrs} bind:value={$">>)
    /\ ~Includes(Block(pageSvelte, k), <<"<", "Textarea">>)
    /\ ~Includes(Block(pageSvelte, k), <<" multiple />">>)
    /\ Rule(k) = "z.string()"

\* C7 as stated: the field name is the text before the first ":", the type
\* tag all of the text after it; an argument without ":" has an undefined type
\* tag and is rendered as a field of an unrecognized type is.
C7_AsStated ==
    Rendered =>
        \A k \in 1..NFields :
            /\ fields[k].field = BeforeFirstColon(fieldArgs[k])
            /\ IF Colons(fieldArgs[k]) = <<>>
               THEN fields[k].type = Undefined /\ FallbackRendering(k)
               ELSE fields[k].type = AfterFirstColon(fieldArgs[k])

\* C7, amended: the argument is split at every ":"; the field name is the text
\* before the first ":", the type tag the text between the first and the
\* second ":" (all that follows the first when there is no second), and what
\* follows a second ":" is dropped; an argument without ":" has an undefined
\* type tag and is rendered as a field of an unrecognized type is.
C7_ParseAtEveryColon ==
    Rendered =>
        \A k \in 1..NFields :
            /\ fields[k].field = BeforeFirstColon(fieldArgs[k])
            /\ IF Colons(fieldArgs[k]) = <<>>
               THEN fields[k].type = Undefined /\ FallbackRendering(k)
               ELSE fields[k].type = BetweenColons(fieldArgs[k])

C7_Witness ==
    /\ Rendered
    /\ NFields = 2
    /\ Len(Colons(fieldArgs[1])) = 2
    /\ fields[1].type = <<"email">>
    /\ Rule(1) = "z.string().email()"
    /\ Colons(fieldArgs[2]) = <<>>
    /\ fields[2].type = Undefined

====
